---- MODULE Spec2Model ----
(***************************************************************************)
(* A model of generate_cv.py: the CVGenerator class (a JSON-like record    *)
(* rendered into an ordered sequence of document blocks) and main (the     *)
(* command line entry point: input check, load, construct, generate).      *)
(*                                                                         *)
(* Representation.                                                         *)
(*  - A Python dict is a function from its keys to its values; a missing   *)
(*    key is a key outside the DOMAIN.  The empty dict is <<>>.            *)
(*  - A Python list is a sequence.  The skills dict, whose insertion order *)
(*    is what items() iterates, is a sequence of <<category, skills>>      *)
(*    pairs with pairwise distinct categories.                             *)
(*  - An optional string (None or a str) is a sequence of length 0 or 1.   *)
(*  - The document is the sequence of its body blocks.  A paragraph keeps  *)
(*    the sequence of its runs; the formatting calls of the source are     *)
(*    abstracted to a style tag and an alignment.                          *)
(*  - Strings are ASCII: the bullet U+2022 is written "*", and the accents *)
(*    of the Spanish labels are dropped.                                   *)
(***************************************************************************)
EXTENDS Naturals, Sequences, FiniteSets, TLC

VARIABLES
    fs,        \* the file system: absolute path -> kind of file
    file_data, \* the record the input JSON file deserialises to
    caller,    \* "main" (the command line) or "client" (the class used directly)
    args,      \* the arguments: of main, or of the client's constructor call
    pc,        \* the position in main / generate
    self,      \* the CVGenerator instance (data, lang, photo_path, doc)
    data,      \* main's local variable `data` (an optional record)
    result,    \* "running", "return0", "return1", "raised"
    error,     \* the exception raised, "" when none
    writes,    \* how many times this run wrote the output file
    ncalls,    \* how many generate calls were started on this instance
    nruns,     \* how many runs of main were started
    built,     \* the build steps the current generate call has completed
    start,     \* Len(self.doc) when the current generate call started
    seen,      \* the kind of the photo file the current call's header found
    renders,   \* one entry per finished generate call
    saved,     \* the document in the output file (an optional document)
    mark       \* Len(self.doc) before the last build step

vars == <<fs, file_data, caller, args, pc, self, data, result, error, writes,
          ncalls, nruns, built, start, seen, renders, saved, mark>>

----------------------------------------------------------------------------
(* Bounds of the model.                                                     *)

MaxSkills == 2
MaxJobs == 2
MaxAchievements == 2
MaxEducation == 2
MaxCerts == 2
MaxLangs == 2
MaxCalls == 2
MaxRuns == 2

----------------------------------------------------------------------------
(* Python values.                                                           *)

None == <<>>
Some(s) == <<s>>
EmptyDict == <<>>

\* dict.get(k, default)
get(d, k, default) == IF k \in DOMAIN d THEN d[k] ELSE default

\* bool(d.get(k)) for a string-valued key: present and not ''
truthy(d, k) == k \in DOMAIN d /\ d[k] # ""

\* bool(x) for an optional string: not None and not ''
truthy_opt(x) == x # None /\ x[1] # ""

\* sep.join(parts)
RECURSIVE join(_, _)
join(sep, parts) ==
    IF parts = <<>> THEN ""
    ELSE IF Len(parts) = 1 THEN parts[1]
    ELSE parts[1] \o sep \o join(sep, Tail(parts))

\* str.upper() on the strings the model renders in upper case
upper(s) ==
    CASE s = "" -> ""
      [] s = "Jane Doe" -> "JANE DOE"
      [] s = "Your Name" -> "YOUR NAME"
      [] s = "Professional Summary" -> "PROFESSIONAL SUMMARY"
      [] s = "Technical Skills" -> "TECHNICAL SKILLS"
      [] s = "Professional Experience" -> "PROFESSIONAL EXPERIENCE"
      [] s = "Education" -> "EDUCATION"
      [] s = "Certifications & Languages" -> "CERTIFICATIONS & LANGUAGES"
      [] s = "Resumen Profesional" -> "RESUMEN PROFESIONAL"
      [] s = "Habilidades Tecnicas" -> "HABILIDADES TECNICAS"
      [] s = "Experiencia Profesional" -> "EXPERIENCIA PROFESIONAL"
      [] s = "Educacion" -> "EDUCACION"
      [] s = "Certificaciones e Idiomas" -> "CERTIFICACIONES E IDIOMAS"

BULLET == "*"

TRANSLATIONS ==
    [en |-> [professional_summary |-> "Professional Summary",
             technical_skills |-> "Technical Skills",
             professional_experience |-> "Professional Experience",
             education |-> "Education",
             certifications_languages |-> "Certifications & Languages",
             certifications |-> "Certifications",
             languages |-> "Languages"],
     es |-> [professional_summary |-> "Resumen Profesional",
             technical_skills |-> "Habilidades Tecnicas",
             professional_experience |-> "Experiencia Profesional",
             education |-> "Educacion",
             certifications_languages |-> "Certificaciones e Idiomas",
             certifications |-> "Certificaciones",
             languages |-> "Idiomas"]]

----------------------------------------------------------------------------
(* The file system.                                                         *)

script_dir == "/app"

AbsolutePaths ==
    {"/data/notes.txt", "/app/cv_data.json", "/app/CV_Optimized_ATS.docx", "/app/photo.jpg",
     "/app/missing.jpg"}

is_absolute(p) == p \in AbsolutePaths

\* main's path resolution: a relative path is taken under the script's directory
resolve(p) == IF is_absolute(p) THEN p ELSE script_dir \o "/" \o p

\* Path(p).exists()
exists(f, p) == p \in DOMAIN f /\ f[p] # "absent"

----------------------------------------------------------------------------
(* Document blocks.                                                         *)

Paragraph(style, align, runs) ==
    [type |-> "paragraph", style |-> style, align |-> align, runs |-> runs]

\* paragraph.add_run(text)
add_run(p, text) == [p EXCEPT !.runs = Append(@, text)]

\* the text of a paragraph: its runs, concatenated
Text(p) == join("", p.runs)

_add_section_heading(doc, text) ==
    Append(doc, add_run(Paragraph("section", "", <<>>), upper(text)))

_add_bullet(doc, text) ==
    Append(doc, add_run(Paragraph("bullet", "", <<>>), BULLET \o " " \o text))

----------------------------------------------------------------------------
(* CVGenerator.  A build operation takes the instance g (data, lang,        *)
(* photo_path, doc) and gives the document it leaves behind and the         *)
(* exception it raised ("" when it returned).                               *)

Outcome(doc, err) == [doc |-> doc, err |-> err]

\* self.t
t(g) == TRANSLATIONS[g.lang]

\* __init__: an unsupported language falls back to 'en'; the document is new
CVGenerator(d, language, photo_path) ==
    [data |-> d,
     lang |-> IF language \in DOMAIN TRANSLATIONS THEN language ELSE "en",
     photo_path |-> photo_path,
     doc |-> <<>>]

\* if personal.get(k): parts.append(personal[k])
part(personal, k) == IF truthy(personal, k) THEN <<personal[k]>> ELSE <<>>

\* has_photo without the existence test: any non-empty path counts
has_photo_unchecked(g, f) == truthy_opt(g.photo_path)

\* has_photo = self.photo_path and Path(self.photo_path).exists()
has_photo(g, f) == truthy_opt(g.photo_path) /\ exists(f, g.photo_path[1])

\* the left cell with the phone left out of the contact line
left_cell_paragraphs_no_phone(personal) ==
    LET name_p == add_run(Paragraph("name", "LEFT", <<>>),
                          upper(get(personal, "name", "Your Name")))
        title_p == add_run(Paragraph("title", "LEFT", <<>>),
                           get(personal, "title", "Professional Title"))
        contact_parts == part(personal, "email") \o part(personal, "location")
        link_parts == part(personal, "github") \o part(personal, "linkedin")
                      \o part(personal, "portfolio")
    IN  <<name_p, title_p>>
        \o (IF contact_parts # <<>>
            THEN <<add_run(Paragraph("contact", "LEFT", <<>>),
                           join("  |  ", contact_parts))>>
            ELSE <<>>)
        \o (IF link_parts # <<>>
            THEN <<add_run(Paragraph("links", "LEFT", <<>>), join("  |  ", link_parts))>>
            ELSE <<>>)

\* the paragraphs of the table's left cell: the cell's own first paragraph takes
\* the name, then title, contact line and links line are added to the cell
left_cell_paragraphs(personal) ==
    LET name_p == add_run(Paragraph("name", "LEFT", <<>>),
                          upper(get(personal, "name", "Your Name")))
        title_p == add_run(Paragraph("title", "LEFT", <<>>),
                           get(personal, "title", "Professional Title"))
        contact_parts == part(personal, "email") \o part(personal, "phone")
                         \o part(personal, "location")
        link_parts == part(personal, "github") \o part(personal, "linkedin")
                      \o part(personal, "portfolio")
    IN  <<name_p, title_p>>
        \o (IF contact_parts # <<>>
            THEN <<add_run(Paragraph("contact", "LEFT", <<>>),
                           join("  |  ", contact_parts))>>
            ELSE <<>>)
        \o (IF link_parts # <<>>
            THEN <<add_run(Paragraph("links", "LEFT", <<>>), join("  |  ", link_parts))>>
            ELSE <<>>)

\* the photo layout: a two-column table (identity left, picture right) and a
\* spacing paragraph; add_picture raises on a file that is not an image, after
\* the table and its left cell were built and before the spacing paragraph
header_with_photo(g, f, personal) ==
    LET photo_p == add_run(Paragraph("photo", "RIGHT", <<>>), "")
        is_image == f[g.photo_path[1]] = "image"
        picture == IF is_image THEN <<g.photo_path[1]>> ELSE <<>>
        right_cell == <<[type |-> "paragraph", style |-> "photo", align |-> "RIGHT",
                         runs |-> photo_p.runs, picture |-> picture]>>
        table == [type |-> "table",
                  cells |-> <<left_cell_paragraphs(personal), right_cell>>]
    IN  IF is_image
        THEN Outcome(g.doc \o <<table, Paragraph("spacing", "", <<>>)>>, "")
        ELSE Outcome(g.doc \o <<table>>, "UnrecognizedImageError")

\* the layout without photo: centered paragraphs in the document body
header_centered(g, personal) ==
    LET name_p == add_run(Paragraph("name", "CENTER", <<>>),
                          upper(get(personal, "name", "Your Name")))
        title_p == add_run(Paragraph("title", "CENTER", <<>>),
                           get(personal, "title", "Professional Title"))
        contact_parts == part(personal, "email") \o part(personal, "phone")
                         \o part(personal, "location")
        link_parts == part(personal, "github") \o part(personal, "linkedin")
                      \o part(personal, "portfolio")
    IN  Outcome(g.doc \o <<name_p, title_p>>
                \o (IF contact_parts # <<>>
                    THEN <<add_run(Paragraph("contact", "CENTER", <<>>),
                                   join("  |  ", contact_parts))>>
                    ELSE <<>>)
                \o (IF link_parts # <<>>
                    THEN <<add_run(Paragraph("links", "CENTER", <<>>),
                                   join("  |  ", link_parts))>>
                    ELSE <<>>),
                "")

build_header(g, f) ==
    LET personal == get(g.data, "personal", EmptyDict)
    IN  IF has_photo(g, f)
        THEN header_with_photo(g, f, personal)
        ELSE header_centered(g, personal)

\* build_summary that skips a summary the document already shows
build_summary_once(g) ==
    LET summary_text == get(g.data, "summary", "")
        shown == \E i \in 1..Len(g.doc) :
                    g.doc[i].type = "paragraph" /\ g.doc[i].style = "summary"
    IN  IF summary_text = "" \/ shown THEN Outcome(g.doc, "")
        ELSE Outcome(Append(_add_section_heading(g.doc, t(g).professional_summary),
                            add_run(Paragraph("summary", "", <<>>), summary_text)),
                     "")

\* build_summary without its emptiness guard: an empty summary gets a heading
build_summary_unguarded(g) ==
    LET summary_text == get(g.data, "summary", "")
    IN  Outcome(Append(_add_section_heading(g.doc, t(g).professional_summary),
                       add_run(Paragraph("summary", "", <<>>), summary_text)),
                "")

build_summary(g) ==
    LET summary_text == get(g.data, "summary", "")
    IN  IF summary_text = "" THEN Outcome(g.doc, "")
        ELSE Outcome(Append(_add_section_heading(g.doc, t(g).professional_summary),
                            add_run(Paragraph("summary", "", <<>>), summary_text)),
                     "")

\* the skill paragraphs, last category first
RECURSIVE skill_paragraphs_reversed(_)
skill_paragraphs_reversed(items) ==
    IF items = <<>> THEN <<>>
    ELSE skill_paragraphs_reversed(Tail(items))
         \o <<add_run(add_run(Paragraph("skill", "", <<>>), items[1][1] \o ": "),
                      items[1][2])>>

\* one paragraph per (category, skill_list) item: a bold "category: " run, then
\* the skills run
RECURSIVE skill_paragraphs(_)
skill_paragraphs(items) ==
    IF items = <<>> THEN <<>>
    ELSE <<add_run(add_run(Paragraph("skill", "", <<>>), items[1][1] \o ": "),
                   items[1][2])>>
         \o skill_paragraphs(Tail(items))

build_skills(g) ==
    LET skills == get(g.data, "skills", <<>>)
    IN  IF skills = <<>> THEN Outcome(g.doc, "")
        ELSE Outcome(_add_section_heading(g.doc, t(g).technical_skills)
                     \o skill_paragraphs(skills), "")

\* the bullets, last achievement first
RECURSIVE add_bullets_reversed(_, _)
add_bullets_reversed(doc, texts) ==
    IF texts = <<>> THEN doc
    ELSE _add_bullet(add_bullets_reversed(doc, Tail(texts)), texts[1])

RECURSIVE add_bullets(_, _)
add_bullets(doc, texts) ==
    IF texts = <<>> THEN doc
    ELSE add_bullets(_add_bullet(doc, texts[1]), Tail(texts))

\* the header paragraph (four runs), the date paragraph and the bullets of a job
add_job(doc, job) ==
    LET header_p == add_run(add_run(add_run(add_run(Paragraph("job", "", <<>>),
                        get(job, "title", "")),
                        " | "),
                        get(job, "company", "")),
                        " | " \o get(job, "location", ""))
        date_p == add_run(Paragraph("date", "", <<>>), get(job, "dates", ""))
    IN  add_bullets(doc \o <<header_p, date_p>>, get(job, "achievements", <<>>))

RECURSIVE add_jobs(_, _)
add_jobs(doc, experience) ==
    IF experience = <<>> THEN doc
    ELSE add_jobs(add_job(doc, experience[1]), Tail(experience))

build_experience(g) ==
    LET experience == get(g.data, "experience", <<>>)
    IN  IF experience = <<>> THEN Outcome(g.doc, "")
        ELSE Outcome(add_jobs(_add_section_heading(g.doc, t(g).professional_experience),
                              experience), "")

\* the degree paragraph, the "institution | dates" paragraph and the optional bullet
add_edu(doc, edu) ==
    LET p == add_run(Paragraph("degree", "", <<>>), get(edu, "degree", ""))
        details_p == add_run(Paragraph("details", "", <<>>),
                             get(edu, "institution", "") \o " | " \o get(edu, "dates", ""))
        with_lines == doc \o <<p, details_p>>
    IN  IF truthy(edu, "details") THEN _add_bullet(with_lines, edu["details"])
        ELSE with_lines

RECURSIVE add_edus(_, _)
add_edus(doc, education) ==
    IF education = <<>> THEN doc
    ELSE add_edus(add_edu(doc, education[1]), Tail(education))

build_education(g) ==
    LET education == get(g.data, "education", <<>>)
    IN  IF education = <<>> THEN Outcome(g.doc, "")
        ELSE Outcome(add_edus(_add_section_heading(g.doc, t(g).education), education), "")

\* l['language'] and l['level']: a plain subscript, KeyError on a missing key
lang_complete(l) == "language" \in DOMAIN l /\ "level" \in DOMAIN l

lang_strs(languages) ==
    [i \in 1..Len(languages) |->
        languages[i]["language"] \o " (" \o languages[i]["level"] \o ")"]

build_certifications_and_languages(g) ==
    LET certs == get(g.data, "certifications", <<>>)
        languages == get(g.data, "languages", <<>>)
        with_heading == _add_section_heading(g.doc, t(g).certifications_languages)
        p == Paragraph("certlang", "", <<>>)
        cert_part == IF certs # <<>>
                     THEN <<t(g).certifications \o ": " \o join(", ", certs)>>
                     ELSE <<>>
        lang_part == IF languages # <<>>
                     THEN <<t(g).languages \o ": " \o join(", ", lang_strs(languages))>>
                     ELSE <<>>
    IN  IF certs = <<>> /\ languages = <<>> THEN Outcome(g.doc, "")
        ELSE IF \E i \in 1..Len(languages) : ~lang_complete(languages[i])
        THEN Outcome(Append(with_heading, p), "KeyError")
        ELSE Outcome(Append(with_heading,
                            add_run(p, join("  " \o BULLET \o "  ", cert_part \o lang_part))),
                     "")

----------------------------------------------------------------------------
(* The records and arguments the model runs on.  The input is drawn from a *)
(* union of families, each varying one part of the record exhaustively     *)
(* within its bound.                                                        *)

Opt(k, vals) == {EmptyDict} \cup {k :> v : v \in vals}

SeqsUpTo(S, n) == UNION {[1..k -> S] : k \in 0..n}

\* sequences without repeated elements: the keys of a dict, in insertion order
DistinctSeqsUpTo(S, n) ==
    {q \in SeqsUpTo(S, n) : \A i, j \in 1..Len(q) : i # j => q[i] # q[j]}

PersonalRecords ==
    {a @@ b @@ c @@ d @@ e @@ f @@ h @@ i :
        a \in Opt("name", {"", "Jane Doe"}),
        b \in Opt("title", {"Engineer"}),
        c \in Opt("email", {"", "jane@x.io"}),
        d \in Opt("phone", {"555-0100"}),
        e \in Opt("location", {"Madrid"}),
        f \in Opt("github", {"", "github.com/jane"}),
        h \in Opt("linkedin", {"linkedin.com/in/jane"}),
        i \in Opt("portfolio", {"jane.dev"})}

SkillItem(c) ==
    CASE c = "Languages" -> <<c, "Python, Go">>
      [] c = "Cloud" -> <<c, "AWS">>
      [] c = "Tools" -> <<c, "">>

SkillDicts ==
    {[i \in 1..Len(q) |-> SkillItem(q[i])] :
        q \in DistinctSeqsUpTo({"Languages", "Cloud", "Tools"}, MaxSkills)}

AchievementLists == SeqsUpTo({"Shipped X", "Cut cost"}, MaxAchievements)

\* one job, every subset of its fields
JobRecords ==
    {a @@ b @@ c @@ d @@ e :
        a \in Opt("title", {"Dev"}),
        b \in Opt("company", {"Acme"}),
        c \in Opt("location", {"Remote"}),
        d \in Opt("dates", {"2020 - 2024"}),
        e \in Opt("achievements", AchievementLists)}

JobPool ==
    {[title |-> "Dev", company |-> "Acme", location |-> "Remote",
      dates |-> "2020 - 2024", achievements |-> <<"Shipped X", "Cut cost">>],
     [title |-> "Intern", company |-> "Initech", achievements |-> <<"Cut cost">>],
     [company |-> "Globex", dates |-> "2019"]}

ExperienceLists == {<<j>> : j \in JobRecords} \cup SeqsUpTo(JobPool, MaxJobs)

EduRecords ==
    {a @@ b @@ c @@ d :
        a \in Opt("degree", {"BSc"}),
        b \in Opt("institution", {"MIT"}),
        c \in Opt("dates", {"2016"}),
        d \in Opt("details", {"", "Honours"})}

EduPool ==
    {[degree |-> "BSc", institution |-> "MIT", dates |-> "2016", details |-> "Honours"],
     [degree |-> "MSc", institution |-> "ETH"],
     [institution |-> "UPM", details |-> ""]}

EducationLists == {<<e>> : e \in EduRecords} \cup SeqsUpTo(EduPool, MaxEducation)

CertLists == SeqsUpTo({"AWS SA", "CKA"}, MaxCerts)

\* language entries, two of them with a key missing
LangPool ==
    {[language |-> "English", level |-> "Native"],
     [language |-> "Spanish", level |-> "B2"],
     [language |-> "French"],
     [level |-> "C1"]}

LanguageLists == SeqsUpTo(LangPool, MaxLangs)

\* a record of every section, each absent, empty or filled
SectionRecords ==
    {a @@ b @@ c @@ d @@ e @@ f @@ h :
        a \in Opt("personal", {[name |-> "Jane Doe"]}),
        b \in Opt("summary", {"", "Builds things."}),
        c \in Opt("skills", {<<>>, <<SkillItem("Languages")>>}),
        d \in Opt("experience", {<<>>, <<[title |-> "Dev", achievements |-> <<"Shipped X">>]>>}),
        e \in Opt("education", {<<>>, <<[degree |-> "BSc"]>>}),
        f \in Opt("certifications", {<<>>, <<"AWS SA">>}),
        h \in Opt("languages", {<<>>, <<[language |-> "English", level |-> "Native"]>>})}

HeaderRecords ==
    {EmptyDict, [personal |-> EmptyDict]}
    \cup {[personal |-> p, summary |-> "Builds things."] : p \in PersonalRecords}

SkillsRecords == {[personal |-> [name |-> "Jane Doe"], skills |-> k] : k \in SkillDicts}

ExperienceRecords == {[experience |-> x] : x \in ExperienceLists}

EducationRecords == {[summary |-> "", education |-> x] : x \in EducationLists}

CertLangRecords ==
    {a @@ b : a \in Opt("certifications", CertLists), b \in Opt("languages", LanguageLists)}

SampleRecords ==
    {[personal |-> [name |-> "Jane Doe"]],
     [personal |-> [name |-> "Jane Doe", title |-> "Engineer", email |-> "jane@x.io",
                    github |-> "github.com/jane"],
      summary |-> "Builds things.",
      skills |-> <<SkillItem("Languages"), SkillItem("Cloud")>>,
      experience |-> <<[title |-> "Dev", company |-> "Acme", location |-> "Remote",
                        dates |-> "2020 - 2024",
                        achievements |-> <<"Shipped X", "Cut cost">>]>>,
      education |-> <<[degree |-> "BSc", institution |-> "MIT", dates |-> "2016"]>>,
      certifications |-> <<"AWS SA">>,
      languages |-> <<[language |-> "English", level |-> "Native"]>>],
     [summary |-> "Builds things.", languages |-> <<[language |-> "French"]>>]}

InputFile == "cv_data.json"
OutputFile == "CV_Optimized_ATS.docx"

\* the --photo values of main: none, empty, a missing file, an image, a file
\* that is no image, and the output file's own name
MainPhotos ==
    {None, Some(""), Some("missing.jpg"), Some("photo.jpg"), Some("/data/notes.txt"),
     Some(OutputFile)}

ClientPhotos ==
    {None, Some(""), Some("/app/missing.jpg"), Some("/app/photo.jpg"),
     Some(resolve(OutputFile))}

Scenario(d, c, l, ph, k) == [data |-> d, caller |-> c, lang |-> l, photo |-> ph, input |-> k]

Scenarios ==
    {Scenario(d, "main", l, ph, k) :
        d \in SampleRecords, l \in {"en", "es"}, ph \in MainPhotos,
        k \in {"absent", "malformed", "json"}}
    \cup {Scenario(d, "client", l, ph, "json") :
        d \in SampleRecords, l \in {"en", "es", "fr"}, ph \in ClientPhotos}
    \cup {Scenario(d, "main", l, None, "json") : d \in SectionRecords, l \in {"en", "es"}}
    \cup {Scenario(d, "client", "fr", None, "json") : d \in SectionRecords}
    \cup {Scenario(d, "main", "en", ph, "json") : d \in HeaderRecords, ph \in MainPhotos}
    \cup {Scenario(d, "main", "es", None, "json") :
        d \in SkillsRecords \cup ExperienceRecords \cup EducationRecords}
    \cup {Scenario(d, "main", l, None, "json") : d \in CertLangRecords, l \in {"en", "es"}}

----------------------------------------------------------------------------
(* The state machine: main's steps, the client's calls, generate's steps.   *)

NoInstance == CVGenerator(EmptyDict, "en", None)

Init ==
    \E sc \in Scenarios :
        /\ fs = [p \in AbsolutePaths |->
                    CASE p = resolve(InputFile) -> sc.input
                      [] p = resolve(OutputFile) -> "absent"
                      [] p = "/app/missing.jpg" -> "absent"
                      [] p = "/app/photo.jpg" -> "image"
                      [] p = "/data/notes.txt" -> "other"]
        /\ file_data = sc.data
        /\ caller = sc.caller
        /\ args = [input |-> InputFile, output |-> OutputFile, lang |-> sc.lang,
                   photo |-> sc.photo]
        /\ pc = IF sc.caller = "main" THEN "main" ELSE "client"
        /\ self = NoInstance
        /\ data = None
        /\ result = "running"
        /\ error = ""
        /\ writes = 0
        /\ ncalls = 0
        /\ nruns = IF sc.caller = "main" THEN 1 ELSE 0
        /\ built = <<>>
        /\ start = 0
        /\ seen = ""
        /\ renders = <<>>
        /\ saved = None
        /\ mark = 0

\* main, up to the input check: the paths are resolved; a missing input file
\* prints the error and returns 1
main_check ==
    /\ pc = "main"
    /\ IF ~exists(fs, resolve(args.input))
       THEN pc' = "exit" /\ result' = "return1"
       ELSE pc' = "load" /\ result' = result
    /\ UNCHANGED <<fs, file_data, caller, args, self, data, error, writes, ncalls,
                   nruns, built, start, seen, renders, saved, mark>>

\* json.load: raises on a malformed file
main_load ==
    /\ pc = "load"
    /\ IF fs[resolve(args.input)] = "malformed"
       THEN pc' = "exit" /\ result' = "raised" /\ error' = "JSONDecodeError"
            /\ data' = data
       ELSE pc' = "construct" /\ data' = Some(file_data) /\ UNCHANGED <<result, error>>
    /\ UNCHANGED <<fs, file_data, caller, args, self, writes, ncalls, nruns, built,
                   start, seen, renders, saved, mark>>

\* the photo path main hands to the constructor
main_photo_path == IF truthy_opt(args.photo) THEN Some(resolve(args.photo[1])) ELSE None

main_construct ==
    /\ pc = "construct"
    /\ self' = CVGenerator(data[1], args.lang, main_photo_path)
    /\ pc' = "ready"
    /\ UNCHANGED <<fs, file_data, caller, args, data, result, error, writes, ncalls,
                   nruns, built, start, seen, renders, saved, mark>>

\* the class used directly: the constructor is called with the record in memory
client_construct ==
    /\ pc = "client"
    /\ self' = CVGenerator(file_data, args.lang, args.photo)
    /\ pc' = "ready"
    /\ UNCHANGED <<fs, file_data, caller, args, data, result, error, writes, ncalls,
                   nruns, built, start, seen, renders, saved, mark>>

\* the body of generate: the six build calls, then the save
generate_order ==
    <<"build_header", "build_summary", "build_skills", "build_experience",
      "build_education", "build_certifications_and_languages", "save">>

\* the statement of generate that follows the build call `at`
after(at) ==
    LET i == CHOOSE k \in 1..(Len(generate_order) - 1) : generate_order[k] = at
    IN  generate_order[i + 1]

\* a generate that starts from a new document at every call
generate_call_new_document ==
    /\ pc = "ready"
    /\ ncalls < (IF caller = "main" THEN 1 ELSE MaxCalls)
    /\ ncalls' = ncalls + 1
    /\ self' = [self EXCEPT !.doc = <<>>]
    /\ start' = 0
    /\ built' = <<>>
    /\ seen' = ""
    /\ pc' = generate_order[1]
    /\ UNCHANGED <<fs, file_data, caller, args, data, result, error, writes,
                   nruns, renders, saved, mark>>

\* generate is called: once by main, any number of times by a client
generate_call ==
    /\ pc = "ready"
    /\ ncalls < (IF caller = "main" THEN 1 ELSE MaxCalls)
    /\ ncalls' = ncalls + 1
    /\ start' = Len(self.doc)
    /\ built' = <<>>
    /\ seen' = ""
    /\ pc' = generate_order[1]
    /\ UNCHANGED <<fs, file_data, caller, args, self, data, result, error, writes,
                   nruns, renders, saved, mark>>

\* what a finished generate call leaves in the history
Render(doc, err) ==
    [seen |-> seen, blocks |-> SubSeq(doc, start + 1, Len(doc)), err |-> err]

\* one build step of generate: the document grows; an exception ends the run
Step(at, r) ==
    /\ pc = at
    /\ self' = [self EXCEPT !.doc = r.doc]
    /\ mark' = Len(self.doc)
    /\ IF r.err # ""
       THEN /\ pc' = "exit"
            /\ result' = "raised"
            /\ error' = r.err
            /\ renders' = Append(renders, Render(r.doc, r.err))
            /\ built' = built
       ELSE /\ pc' = after(at)
            /\ built' = Append(built, at)
            /\ UNCHANGED <<result, error, renders>>
    /\ UNCHANGED <<fs, file_data, caller, args, data, writes, ncalls, nruns, start, saved>>

\* the kind of file the header finds at the photo path ("none" without a path)
photo_kind(g, f) ==
    IF ~truthy_opt(g.photo_path) THEN "none"
    ELSE IF exists(f, g.photo_path[1]) THEN f[g.photo_path[1]] ELSE "absent"

step_header ==
    /\ Step("build_header", build_header(self, fs))
    /\ seen' = photo_kind(self, fs)

step_summary ==
    /\ Step("build_summary", build_summary(self))
    /\ seen' = seen

step_skills ==
    /\ Step("build_skills", build_skills(self))
    /\ seen' = seen

step_experience ==
    /\ Step("build_experience", build_experience(self))
    /\ seen' = seen

step_education ==
    /\ Step("build_education", build_education(self))
    /\ seen' = seen

step_certifications_and_languages ==
    /\ Step("build_certifications_and_languages", build_certifications_and_languages(self))
    /\ seen' = seen

\* the path generate saves to
output_path == resolve(args.output)

\* a save that leaves a file behind when the write fails
save_not_atomic ==
    /\ pc = "save"
    /\ \E ok \in BOOLEAN :
        /\ fs' = [fs EXCEPT ![output_path] = "docx"]
        /\ saved' = Some(self.doc)
        /\ writes' = writes + 1
        /\ IF ok
           THEN /\ renders' = Append(renders, Render(self.doc, ""))
                /\ pc' = IF caller = "main" THEN "return" ELSE "ready"
                /\ UNCHANGED <<result, error>>
           ELSE /\ pc' = "exit"
                /\ result' = "raised"
                /\ error' = "OSError"
                /\ renders' = Append(renders, Render(self.doc, "OSError"))
    /\ UNCHANGED <<file_data, caller, args, self, data, ncalls, nruns, built, start, seen,
                   mark>>

\* self.doc.save(output_path): the file is written, or the write is refused
\* (OSError) and nothing is written
save ==
    /\ pc = "save"
    /\ \E ok \in BOOLEAN :
        IF ok
        THEN /\ fs' = [fs EXCEPT ![output_path] = "docx"]
             /\ saved' = Some(self.doc)
             /\ writes' = writes + 1
             /\ renders' = Append(renders, Render(self.doc, ""))
             /\ pc' = IF caller = "main" THEN "return" ELSE "ready"
             /\ UNCHANGED <<result, error>>
        ELSE /\ pc' = "exit"
             /\ result' = "raised"
             /\ error' = "OSError"
             /\ renders' = Append(renders, Render(self.doc, "OSError"))
             /\ UNCHANGED <<fs, saved, writes>>
    /\ UNCHANGED <<file_data, caller, args, self, data, ncalls, nruns, built, start, seen,
                   mark>>

\* generate returned: main prints the success lines and returns 0
main_return ==
    /\ pc = "return"
    /\ pc' = "exit"
    /\ result' = "return0"
    /\ UNCHANGED <<fs, file_data, caller, args, self, data, error, writes, ncalls,
                   nruns, built, start, seen, renders, saved, mark>>

\* the program is run again with the same command line: a new process, the
\* same file system
main_again ==
    /\ pc = "exit"
    /\ caller = "main"
    /\ nruns < MaxRuns
    /\ nruns' = nruns + 1
    /\ pc' = "main"
    /\ self' = NoInstance
    /\ data' = None
    /\ result' = "running"
    /\ error' = ""
    /\ writes' = 0
    /\ ncalls' = 0
    /\ built' = <<>>
    /\ start' = 0
    /\ seen' = ""
    /\ mark' = 0
    /\ UNCHANGED <<fs, file_data, caller, args, renders, saved>>

Next ==
    \/ main_check
    \/ main_load
    \/ main_construct
    \/ client_construct
    \/ generate_call
    \/ step_header
    \/ step_summary
    \/ step_skills
    \/ step_experience
    \/ step_education
    \/ step_certifications_and_languages
    \/ save
    \/ main_return
    \/ main_again

Spec == Init /\ [][Next]_vars

----------------------------------------------------------------------------
(* What the claims speak about.                                             *)

\* the locale in force: 'es' when asked for, 'en' otherwise
Locale == IF args.lang = "es" THEN "es" ELSE "en"

\* the heading each gated section shows, per locale
Headings ==
    [en |-> [summary |-> "PROFESSIONAL SUMMARY",
             skills |-> "TECHNICAL SKILLS",
             experience |-> "PROFESSIONAL EXPERIENCE",
             education |-> "EDUCATION",
             certlang |-> "CERTIFICATIONS & LANGUAGES"],
     es |-> [summary |-> "RESUMEN PROFESIONAL",
             skills |-> "HABILIDADES TECNICAS",
             experience |-> "EXPERIENCIA PROFESIONAL",
             education |-> "EDUCACION",
             certlang |-> "CERTIFICACIONES E IDIOMAS"]]

Sections == {"summary", "skills", "experience", "education", "certlang"}

ListFilled(d, k) == k \in DOMAIN d /\ Len(d[k]) > 0

\* whether the field(s) behind a gated section are present and non-empty
Filled(d, k) ==
    CASE k = "summary" -> "summary" \in DOMAIN d /\ d["summary"] # ""
      [] k = "certlang" -> ListFilled(d, "certifications") \/ ListFilled(d, "languages")
      [] OTHER -> ListFilled(d, k)

IsHeading(b) == b.type = "paragraph" /\ b.style = "section"

HasHeading(doc, text) == \E i \in 1..Len(doc) : IsHeading(doc[i]) /\ Text(doc[i]) = text

\* a block of the header: the table, or a paragraph in one of the header's styles
IsHeaderBlock(b) ==
    b.type = "table" \/ b.style \in {"name", "title", "contact", "links", "spacing"}

\* all six build calls of the current generate call have returned
Rendered == Len(built) = 6

\* the blocks the current generate call has appended
Current == SubSeq(self.doc, start + 1, Len(self.doc))

\* the blocks the last build step appended
Appended == SubSeq(self.doc, mark + 1, Len(self.doc))

\* C1: once generate has built its six blocks, the document holds the heading
\* of a gated section exactly when the section's field is present and
\* non-empty (certifications-and-languages: when one of the two lists is),
\* it holds no other heading, and a record in which no gated field is filled
\* (such as one whose only field is personal.name) gives header blocks only.
C1_SectionsGated ==
    Rendered =>
        /\ \A k \in Sections :
              HasHeading(self.doc, Headings[Locale][k]) <=> Filled(self.data, k)
        /\ Cardinality({i \in 1..Len(Current) : IsHeading(Current[i])})
              = Cardinality({k \in Sections : Filled(self.data, k)})
        /\ (\A k \in Sections : ~Filled(self.data, k))
              => \A i \in 1..Len(self.doc) : IsHeaderBlock(self.doc[i])

\* C1's case: a Spanish render of a record with an empty summary, no skills
\* key and one job shows the experience heading and not the summary heading
C1_Witness ==
    /\ Rendered
    /\ args.lang = "es"
    /\ "summary" \in DOMAIN self.data /\ self.data["summary"] = ""
    /\ "skills" \notin DOMAIN self.data
    /\ ListFilled(self.data, "experience")
    /\ HasHeading(self.doc, "EXPERIENCIA PROFESIONAL")
    /\ ~HasHeading(self.doc, "RESUMEN PROFESIONAL")

\* C2: no error is raised for a missing optional field: whatever fields the
\* record and its entries lack, the only exceptions a run can end with are the
\* environment's (a malformed input file, a photo file that is no image, a
\* refused write), never one caused by the record.
C2_NoErrorForMissingFields ==
    error \in {"", "JSONDecodeError", "UnrecognizedImageError", "OSError"}

\* C3: in a run of main the output file is written at most once, and only
\* once the input file was found and parsed and the six blocks were built, in
\* order; a run that fails (returns 1 or raises) has written nothing; a
\* missing input file gives return code 1 with no data loaded and no generator
\* constructed; return code 0 comes only after the save.
C3_AllOrNothing ==
    caller = "main" =>
        /\ writes <= 1
        /\ writes = 1 =>
              /\ fs[resolve(args.input)] = "json"
              /\ data = Some(file_data)
              /\ built = <<"build_header", "build_summary", "build_skills",
                           "build_experience", "build_education",
                           "build_certifications_and_languages">>
              /\ saved = Some(self.doc)
              /\ fs[resolve(args.output)] = "docx"
        /\ result \in {"return1", "raised"} => writes = 0
        /\ (writes = 0 /\ nruns = 1) => saved = None
        /\ result = "return1" =>
              /\ fs[resolve(args.input)] = "absent"
              /\ data = None
              /\ self = NoInstance
        /\ (pc = "exit" /\ fs[resolve(args.input)] = "absent") => result = "return1"
        /\ result = "return0" => writes = 1

\* C3's case: a run of main that returned 0, its document in the output file
C3_Witness ==
    /\ caller = "main"
    /\ result = "return0"
    /\ writes = 1
    /\ saved = Some(self.doc)
    /\ Len(self.doc) > 2

\* the personal dict the header reads
Personal == IF "personal" \in DOMAIN self.data THEN self.data["personal"] ELSE EmptyDict

\* whether a photo path was supplied and names a file that exists
PhotoExists == truthy_opt(args.photo) /\ fs[resolve(args.photo[1])] # "absent"

NameLine(p) ==
    IF "name" \notin DOMAIN p THEN "YOUR NAME"
    ELSE CASE p["name"] = "Jane Doe" -> "JANE DOE"
           [] p["name"] = "" -> ""

TitleLine(p) == IF "title" \in DOMAIN p THEN p["title"] ELSE "Professional Title"

\* the values of those of `keys` that are present and non-empty, in the order of `keys`
PresentValues(p, keys) ==
    LET kept == SelectSeq(keys, LAMBDA k : k \in DOMAIN p /\ p[k] # "")
    IN  [i \in 1..Len(kept) |-> p[kept[i]]]

Line(style, text) == [style |-> style, text |-> text]

\* the identity lines a record asks for: name, title, and the contact and
\* links lines when one of their fields is filled
IdentityLines(p) ==
    LET contact == PresentValues(p, <<"email", "phone", "location">>)
        links == PresentValues(p, <<"github", "linkedin", "portfolio">>)
    IN  <<Line("name", NameLine(p)), Line("title", TitleLine(p))>>
        \o (IF contact # <<>> THEN <<Line("contact", join("  |  ", contact))>> ELSE <<>>)
        \o (IF links # <<>> THEN <<Line("links", join("  |  ", links))>> ELSE <<>>)

\* the style and text of each paragraph of a sequence
Lines(ps) == [i \in 1..Len(ps) |-> Line(ps[i].style, Text(ps[i]))]

HasTable(blocks) == \E i \in 1..Len(blocks) : blocks[i].type = "table"

\* build_header has just run: it returned, or it raised
HeaderReturned == pc = "build_summary"
HeaderRaised == pc = "exit" /\ built = <<>> /\ error = "UnrecognizedImageError"

\* C4: with a photo path that does not exist the header is what it is with no
\* photo path: the centered paragraphs of the record's identity lines, in
\* order, no table, and no error; a table appears only for a photo path that
\* was supplied and exists.
C4_MissingPhotoAsNoPhoto ==
    /\ (HeaderReturned /\ ~PhotoExists) =>
          /\ ~HasTable(Appended)
          /\ \A i \in 1..Len(Appended) : Appended[i].align = "CENTER"
          /\ Lines(Appended) = IdentityLines(Personal)
    /\ HeaderRaised => PhotoExists
    /\ (pc \in {"build_summary", "exit"} /\ HasTable(Appended)) => PhotoExists

\* C4's case: a photo path naming no file, and the four centered lines rendered
C4_Witness ==
    /\ HeaderReturned
    /\ args.photo = Some("missing.jpg")
    /\ ~HasTable(Appended)
    /\ Len(Appended) = 4

\* the identity paragraphs of a header: the left cell of its table, or the
\* paragraphs themselves
IdentityOf(header) ==
    IF header[1].type = "table" THEN header[1].cells[1] ELSE header

\* C9: whatever the record, the header holds the name line (upper case, or the
\* default name), then the title line (or the default title), then the contact
\* line iff one of email, phone, location is non-empty, then the links line iff
\* one of github, linkedin, portfolio is non-empty, each listing the non-empty
\* fields in that order; the table layout (used iff the photo exists) and the
\* centered layout hold the same lines.
C9_IdentityLines ==
    (HeaderReturned \/ HeaderRaised) =>
        /\ Lines(IdentityOf(Appended)) = IdentityLines(Personal)
        /\ HasTable(Appended) <=> PhotoExists

\* C9's case: the table layout, with a contact line of two fields (phone among
\* them) and no links line
C9_Witness ==
    /\ HeaderReturned
    /\ HasTable(Appended)
    /\ "phone" \in DOMAIN Personal
    /\ "email" \notin DOMAIN Personal
    /\ Lines(Appended[1].cells[1])
          = <<Line("name", "JANE DOE"), Line("title", "Professional Title"),
              Line("contact", "555-0100  |  Madrid")>>

\* the value of an entry's field, '' when the entry lacks it
Field(e, k) == IF k \in DOMAIN e THEN e[k] ELSE ""

\* the value of a list field, [] when the record lacks it
ListField(d, k) == IF k \in DOMAIN d THEN d[k] ELSE <<>>

C6_SkillLines ==
    (pc = "build_experience" /\ ListFilled(self.data, "skills")) =>
        LET skills == self.data["skills"]
        IN  /\ Len(Appended) = 1 + Len(skills)
            /\ Lines(<<Appended[1]>>) = <<Line("section", Headings[Locale]["skills"])>>
            /\ \A i \in 1..Len(skills) :
                  Lines(<<Appended[i + 1]>>)
                      = <<Line("skill", skills[i][1] \o ": " \o skills[i][2])>>

\* C6's case: two categories, not in alphabetical order
C6_Witness ==
    /\ pc = "build_experience"
    /\ Len(Appended) = 3
    /\ Text(Appended[2]) = "Tools: "
    /\ Text(Appended[3]) = "Cloud: AWS"

\* the lines a job asks for: header, date, one bullet per achievement
JobLines(job) ==
    LET achievements == ListField(job, "achievements")
    IN  <<Line("job", Field(job, "title") \o " | " \o Field(job, "company")
                      \o " | " \o Field(job, "location")),
          Line("date", Field(job, "dates"))>>
        \o [i \in 1..Len(achievements) |-> Line("bullet", "* " \o achievements[i])]

RECURSIVE ExperienceLines(_)
ExperienceLines(jobs) ==
    IF jobs = <<>> THEN <<>> ELSE JobLines(jobs[1]) \o ExperienceLines(Tail(jobs))

\* C7: for non-empty experience build_experience appends the heading and then,
\* job by job in input order, the header line "<title> | <company> |
\* <location>", the date line and one bullet per achievement in input order
\* (none when achievements is absent).
C7_ExperienceLines ==
    (pc = "build_education" /\ ListFilled(self.data, "experience")) =>
        Lines(Appended)
            = <<Line("section", Headings[Locale]["experience"])>>
              \o ExperienceLines(self.data["experience"])

\* C7's case: a job with two achievements followed by a job with none
C7_Witness ==
    /\ pc = "build_education"
    /\ Len(ListField(self.data, "experience")) = 2
    /\ Lines(Appended)
          = <<Line("section", "EXPERIENCIA PROFESIONAL"),
              Line("job", "Dev | Acme | Remote"), Line("date", "2020 - 2024"),
              Line("bullet", "* Shipped X"), Line("bullet", "* Cut cost"),
              Line("job", " | Globex | "), Line("date", "2019")>>

\* the labels of the combined line, per locale
Labels ==
    [en |-> [certifications |-> "Certifications", languages |-> "Languages"],
     es |-> [certifications |-> "Certificaciones", languages |-> "Idiomas"]]

\* the combined line: the certifications group, the languages group, the
\* separator between them when both are there
CombinedLine(certs, languages) ==
    LET cert_group == Labels[Locale]["certifications"] \o ": " \o join(", ", certs)
        lang_group ==
            Labels[Locale]["languages"] \o ": "
            \o join(", ", [i \in 1..Len(languages) |->
                              Field(languages[i], "language") \o " ("
                              \o Field(languages[i], "level") \o ")"])
    IN  IF certs # <<>> /\ languages # <<>> THEN cert_group \o "  *  " \o lang_group
        ELSE IF certs # <<>> THEN cert_group
        ELSE lang_group

\* build_certifications_and_languages has just run: it returned, or it raised
CertLangRan == pc = "save" \/ (pc = "exit" /\ Len(built) = 5 /\ result = "raised")

\* C8: when certifications or languages is non-empty,
\* build_certifications_and_languages appends one heading and one combined
\* line holding a label group per non-empty list, certifications first, the
\* separator between them iff both are non-empty.
C8_CombinedLine ==
    (CertLangRan /\ Filled(self.data, "certlang")) =>
        Lines(Appended)
            = <<Line("section", Headings[Locale]["certlang"]),
                Line("certlang",
                     CombinedLine(ListField(self.data, "certifications"),
                                  ListField(self.data, "languages")))>>

Prefix(a, b) == Len(a) <= Len(b) /\ SubSeq(b, 1, Len(a)) = a

RECURSIVE Copies(_, _)
Copies(blocks, n) == IF n = 0 THEN <<>> ELSE blocks \o Copies(blocks, n - 1)

\* the blocks the first generate call on the current instance appended
FirstRender == renders[Len(renders) - ncalls + 1].blocks

\* the n-th generate call on an instance has saved: the document, and the
\* file, hold n copies of what the first call appended
C10_Copies ==
    (pc \in {"ready", "return"} /\ ncalls >= 1) =>
        /\ self.doc = Copies(FirstRender, ncalls)
        /\ saved = Some(self.doc)
        /\ built = SubSeq(generate_order, 1, 6)

\* a step of generate keeps what the document holds, and keeps the record
C10_Step ==
    pc \in {"ready", "save", "return"} \cup {generate_order[i] : i \in 1..6} =>
        /\ Prefix(self.doc, self'.doc)
        /\ self'.data = self.data
        /\ file_data' = file_data

\* C10: the document of an instance is append-only and never reset: every
\* generate call appends its blocks, in the order of generate's body, after
\* what the document holds, so that after n calls the saved document is n
\* copies of the blocks of one render; no call changes the record.
C10_AppendOnly == [](C10_Copies) /\ [][C10_Step]_vars

\* C10's case: the second generate call on one instance has saved two copies
C10_Witness ==
    /\ caller = "client"
    /\ pc = "ready"
    /\ ncalls = 2
    /\ Len(FirstRender) > 4
    /\ Len(self.doc) = 2 * Len(FirstRender)
    /\ saved = Some(self.doc)

====
